---------------------------- MODULE Spec2Model ----------------------------
(***************************************************************************)
(* The user / referral ledger of the Trojan bot (src/main.py, with the     *)
(* earlier in-memory revision src/bot.py): registration with address       *)
(* assignment and two-level referral credit, the users.json snapshot       *)
(* (save_users / load_users), and the per-user "waiting_for_wallet" flag   *)
(* that turns the next free-text message into a rewards-wallet candidate.  *)
(*                                                                         *)
(* Handlers are coroutines on one asyncio event loop: a handler runs       *)
(* without interruption from one `await` to the next.  In Spec every       *)
(* action is therefore one await-free stretch of a handler.  SpecRace      *)
(* models start_command statement by statement with an explicit scheduler  *)
(* and shows what that atomicity rests on.                                 *)
(*                                                                         *)
(* Strings are modelled by what the code does to them:                     *)
(*   - a free text is [s, n, l, r]: a body s of n characters that starts   *)
(*     and ends with a non-blank character, between l leading and r        *)
(*     trailing blanks; len() and str.strip() are StrLen and Strip;        *)
(*   - a referral token is a sequence of atoms, each either the four       *)
(*     characters "ref_" or a chunk holding no "ref_"; startswith('ref_')  *)
(*     and replace('ref_', '') are StartsWithRef and ReplaceRef;           *)
(*   - a user id (str(user.id), a digit string) is one atom.               *)
(* Time is a logical clock `now`: every handler that calls datetime.now()  *)
(* reads it once and advances it.                                          *)
(*                                                                         *)
(* In src/main.py lines 263-266 (the body of the "buy" branch of           *)
(* button_callback) are dedented to column 0; they are read here as part   *)
(* of that branch, which changes no state.                                 *)
(***************************************************************************)
EXTENDS Integers, Sequences, FiniteSets, TLC

VARIABLES
    up,             \* TRUE while the process runs (TrojanBot constructed)
    users_db,       \* main.py:40   id -> user record
    used_addresses, \* main.py:41   set of addresses handed out
    waiting,        \* context.user_data['waiting_for_wallet'], per user
    replying,       \* per user: handle_message calls suspended at main.py:646
    disk,           \* the file users.json
    now,            \* logical clock read by datetime.now()
    last,           \* history: the handler step taken last and its outcome
    tasks,          \* SpecRace, SpecPool: the start_command coroutines
    running         \* SpecRace, SpecPool: the coroutine holding the event loop

vars == <<up, users_db, used_addresses, waiting, replying, disk, now, last,
          tasks, running>>

-----------------------------------------------------------------------------
(* Bounds *)

\* registrations (and the re-save of a migration) are taken while the clock
\* is below MaxTime
MaxTime == 4
\* wallet updates are taken while the clock is below MaxWalletTime
MaxWalletTime == 2
\* handle_message calls that may be suspended at their reply at one time
MaxInflight == 1

-----------------------------------------------------------------------------
(* Values *)

None == "None"

\* ids of the users that send events in Spec
Users == {"1", "2", "3"}
\* ids of the users that register in SpecLedger
ChainUsers == {"1", "2", "3", "4"}
\* ids of the users that send events in SpecCrash
CrashUsers == {"1", "2"}
Ids == Users \cup ChainUsers

MinWalletLen == 32
MaxWalletLen == 44

Str(s, n, l, r) == [s |-> s, n |-> n, l |-> l, r |-> r]

StrLen(t) == t.l + t.n + t.r

Strip(t) == IF t.n = 0 THEN Str("", 0, 0, 0) ELSE [t EXCEPT !.l = 0, !.r = 0]

TEAMS ==
    ("Team 1" :> Str("8rMj1dMR6tp428j7DaGUn6TpLi89fpdYNQEwqUzyFCe3", 44, 0, 0)) @@
    ("Team 2" :> Str("EATAgjcHTZxCaudus4VvktLRfxYjtHMbNLSnyDJYXtnt", 44, 0, 0))

PoolAddresses == {TEAMS[k] : k \in DOMAIN TEAMS}

\* datetime objects, and what json.dump(default=str) turns them into
DateTime(t) == [type |-> "datetime", t |-> t]
DefaultStr(v) == [v EXCEPT !.type = "str"]


-----------------------------------------------------------------------------
(* Referral tokens: start_command, main.py:138-161 *)

NoToken == <<>>

\* referral_code.startswith('ref_')
StartsWithRef(tok) == Len(tok) > 0 /\ tok[1] = "ref_"

IsNotRef(a) == a # "ref_"

\* referral_code.replace('ref_', ''): every occurrence is removed
ReplaceRef(tok) == SelectSeq(tok, IsNotRef)

\* referrer_id in users_db
InDb(db, id) == \E r \in DOMAIN db : id = <<r>>

\* the referred_by that start_command resolves from the token
ResolveReferrer(db, tok) ==
    IF tok # NoToken /\ StartsWithRef(tok) /\ InDb(db, ReplaceRef(tok))
    THEN ReplaceRef(tok)[1]
    ELSE None

\* a slip: `= 1` for `+= 1`
IncrementDirect_Assign(db, r) == [db EXCEPT ![r].direct_referrals = 1]

\* a slip: `-= 1` for `+= 1`
IncrementDirect_Decrement(db, r) == [db EXCEPT ![r].direct_referrals = @ - 1]

\* users_db[referrer_id]['direct_referrals'] += 1
IncrementDirect(db, r) == [db EXCEPT ![r].direct_referrals = @ + 1]

\* a slip: the credit climbs one more level of the chain
IncrementIndirect_TwoHops(db, r) ==
    LET g   == db[r].referred_by
        db1 == IF g # None /\ g \in DOMAIN db
               THEN [db EXCEPT ![g].indirect_referrals = @ + 1]
               ELSE db
        gg  == IF g # None /\ g \in DOMAIN db THEN db[g].referred_by ELSE None
    IN  IF gg # None /\ gg \in DOMAIN db1
        THEN [db1 EXCEPT ![gg].indirect_referrals = @ + 1]
        ELSE db1

\* users_db[referrer_of_referrer]['indirect_referrals'] += 1, one hop only
IncrementIndirect(db, r) ==
    LET g == db[r].referred_by
    IN  IF g # None /\ g \in DOMAIN db
        THEN [db EXCEPT ![g].indirect_referrals = @ + 1]
        ELSE db

\* a slip: the registration also pays a referral reward to the referrer
Credit_Reward(db, r) ==
    IF r = None THEN db
    ELSE [IncrementIndirect(IncrementDirect(db, r), r) EXCEPT ![r].referral_rewards = @ + 1]

\* the counters credited by a registration that resolved referrer r
Credit(db, r) ==
    IF r = None THEN db ELSE IncrementIndirect(IncrementDirect(db, r), r)

-----------------------------------------------------------------------------
(* Address assignment *)

\* a slip: the two branches swapped
AssignTeamAddress_Swapped(db) ==
    IF Cardinality(DOMAIN db) % 2 = 0 THEN TEAMS["Team 2"] ELSE TEAMS["Team 1"]

\* main.py: strict alternation on the number of existing users
AssignTeamAddress(db) ==
    IF Cardinality(DOMAIN db) % 2 = 0 THEN TEAMS["Team 1"] ELSE TEAMS["Team 2"]

-----------------------------------------------------------------------------
(* User records *)

NewRecord(u, addr, ref, t) ==
    [ telegram_id        |-> u,
      username           |-> <<"@", u>>,
      team_address       |-> addr,
      rewards_wallet     |-> addr,
      referred_by        |-> ref,
      direct_referrals   |-> 0,
      indirect_referrals |-> 0,
      sol_balance        |-> 0,
      referral_rewards   |-> 0,
      cashback_rewards   |-> 0,
      total_paid_rewards |-> 0,
      created_at         |-> DateTime(t),
      last_updated       |-> DateTime(t) ]

\* a slip: the record is inserted before the token is resolved, so a token
\* naming the new user itself finds it in the store
Register_InsertFirst(db, u, tok, t) ==
    LET db1 == db @@ (u :> NewRecord(u, AssignTeamAddress(db), None, t))
        ref == ResolveReferrer(db1, tok)
    IN  [Credit(db1, ref) EXCEPT ![u].referred_by = ref]

\* a slip: `users_db = {telegram_id: {...}}` for
\* `users_db[telegram_id] = {...}`: the store is rebound to the new record
Register_Rebind(db, u, tok, t) ==
    u :> NewRecord(u, AssignTeamAddress(db), ResolveReferrer(db, tok), t)

\* the store after the registration block of start_command
Register(db, u, tok, t) ==
    LET addr == AssignTeamAddress(db)
        ref  == ResolveReferrer(db, tok)
    IN  Credit(db, ref) @@ (u :> NewRecord(u, addr, ref, t))

\* a slip: /start of an existing user credits the token's referrer again
StartExisting_Credit(db, u, tok) == Credit(db, ResolveReferrer(db, tok))

\* a slip: /start of an existing user rewrites its referrer from the token
StartExisting_Overwrite(db, u, tok) ==
    [db EXCEPT ![u].referred_by = ResolveReferrer(db, tok)]

\* a slip: /start of an existing user that has no referrer yet takes the
\* one its token names
StartExisting_LateReferral(db, u, tok) ==
    IF db[u].referred_by = None
    THEN [db EXCEPT ![u].referred_by = ResolveReferrer(db, tok)]
    ELSE db

\* the store after /start of a user that is already in it: the block under
\* `if telegram_id not in users_db` (main.py:144-183) is skipped
StartExisting(db, u, tok) == db

\* a slip: strict comparisons
ValidWallet_Exclusive(w) == StrLen(w) > MinWalletLen /\ StrLen(w) < MaxWalletLen

\* len(wallet_address) >= 32 and len(wallet_address) <= 44
ValidWallet(w) == StrLen(w) >= MinWalletLen /\ StrLen(w) <= MaxWalletLen

\* a slip: the candidate is written to the deposit address field
SetWallet_WrongField(db, u, w, t) ==
    [db EXCEPT ![u].team_address = w, ![u].last_updated = DateTime(t)]

\* a slip: the record is rebuilt from the registration template instead of
\* being updated in place
SetWallet_Rebuild(db, u, w, t) ==
    [db EXCEPT ![u] = [NewRecord(u, @.team_address, None, t) EXCEPT !.rewards_wallet = w]]

\* users_db[telegram_id]['rewards_wallet'] = wallet_address, and the time
\* stamp (main.py:639-640)
SetWallet(db, u, w, t) ==
    [db EXCEPT ![u].rewards_wallet = w, ![u].last_updated = DateTime(t)]

\* a slip: the record is written before the length is checked
HandleWallet_Unchecked(db, u, text, t) ==
    IF u \in DOMAIN db THEN SetWallet(db, u, Strip(text), t) ELSE db

\* a slip: the stripped text is validated, the raw text is stored
HandleWallet_StoresRaw(db, u, text, t) ==
    IF ValidWallet(Strip(text)) /\ u \in DOMAIN db
    THEN SetWallet(db, u, text, t)
    ELSE db

\* the store after handle_message took `text` as a wallet candidate
\* (main.py:633-640): written only inside both checks
HandleWallet(db, u, text, t) ==
    IF ValidWallet(Strip(text)) /\ u \in DOMAIN db
    THEN SetWallet(db, u, Strip(text), t)
    ELSE db

\* the flag cleared on the rejection path too
AfterRejected_Cleared(w, u) == [w EXCEPT ![u] = FALSE]

\* the waiting flags after a candidate failed the length check: the handler
\* returns at main.py:651, before main.py:654
AfterRejected(w, u) == w

-----------------------------------------------------------------------------
(* The snapshot file *)

Missing   == [kind |-> "missing",   users |-> <<>>, used_addresses |-> {}, last_updated |-> 0]
Truncated == [kind |-> "truncated", users |-> <<>>, used_addresses |-> {}, last_updated |-> 0]

\* json.dump(..., default=str) of one record: datetime fields become strings
DumpRecord(rec) ==
    [f \in DOMAIN rec |->
        IF f \in {"created_at", "last_updated"} THEN DefaultStr(rec[f]) ELSE rec[f]]

\* a slip: the used-address set left out of the dumped data
Snapshot_WithoutUsed(db, used, t) ==
    [ kind           |-> "ok",
      users          |-> [u \in DOMAIN db |-> DumpRecord(db[u])],
      used_addresses |-> {},
      last_updated   |-> t ]

\* the file a completed save_users() leaves
Snapshot(db, used, t) ==
    [ kind           |-> "ok",
      users          |-> [u \in DOMAIN db |-> DumpRecord(db[u])],
      used_addresses |-> used,
      last_updated   |-> t ]

\* how one call of save_users() can end
SaveOutcomes == {"ok", "open_fails", "write_fails", "crash"}

\* open(USER_DATA_FILE, 'w') truncates the file in place, json.dump then
\* writes into it; an exception is caught and logged
SaveUsers(db, used, t, so, old) ==
    CASE so = "ok"          -> Snapshot(db, used, t)
      [] so = "open_fails"  -> old
      [] so = "write_fails" -> Truncated
      [] so = "crash"       -> Truncated

\* a slip: the save placed after the credit and before the insert
StartSave_BeforeInsert(db, u, tok, t, used, so, old) ==
    SaveUsers(Credit(db, ResolveReferrer(db, tok)), used, t, so, old)

\* the one save of a registration: after the counters were credited and the
\* new record inserted (main.py:150-181)
StartSave(db, u, tok, t, used, so, old) ==
    SaveUsers(Register(db, u, tok, t), used, t, so, old)


\* a slip: the backfill is applied to every record, not only to those
\* lacking the field
MigrateRecord_Always(rec) == ("rewards_wallet" :> rec["team_address"]) @@ rec

\* the migration of one loaded record (main.py:56-58)
MigrateRecord(rec) ==
    IF "rewards_wallet" \in DOMAIN rec
    THEN rec
    ELSE rec @@ ("rewards_wallet" :> rec["team_address"])

NeedsMigration(d) == \E u \in DOMAIN d.users : "rewards_wallet" \notin DOMAIN d.users[u]

\* a record whose migration raises KeyError
Unmigratable(rec) ==
    "rewards_wallet" \notin DOMAIN rec /\ "team_address" \notin DOMAIN rec

\* a slip: the except clause does not reset the store, so the records
\* migrated before the failing one stay loaded
LoadUsers_NoReset(d) ==
    IF d.kind # "ok"
    THEN [users |-> <<>>, used |-> {}, migrated |-> FALSE]
    ELSE [ users    |-> [u \in DOMAIN d.users |->
                           IF Unmigratable(d.users[u]) THEN d.users[u]
                           ELSE MigrateRecord(d.users[u])],
           used     |-> d.used_addresses,
           migrated |-> FALSE ]

EmptyStore == [users |-> <<>>, used |-> {}, migrated |-> FALSE]

\* the store load_users() builds from the file, before its re-save
LoadUsers(d) ==
    IF d.kind # "ok" THEN EmptyStore
    ELSE IF \E u \in DOMAIN d.users : Unmigratable(d.users[u]) THEN EmptyStore
    ELSE [ users    |-> [u \in DOMAIN d.users |-> MigrateRecord(d.users[u])],
           used     |-> d.used_addresses,
           migrated |-> NeedsMigration(d) ]

-----------------------------------------------------------------------------
(* Events *)

\* context.args[0] of /start
Tokens ==
    {NoToken} \cup {<<"ref_", u>> : u \in Users}
              \cup {<<"1">>, <<"ref_", "ref_", "1">>}

\* query.data of a button press
ButtonActions == {"rewards", "refresh", "set_rewards_wallet", "bogus"}

\* update.message.text of a free-text message
Texts ==
    {Str("w", n, 0, 0) : n \in {31, 32, 44, 45}} \cup {Str("w", n, 1, 0) : n \in {31, 44}}

\* ref: for a /start, the referrer its token resolves to in the store it
\* found; named: the id its token names; log: the level of the record
\* save_users() logged in this step
StartEvent(u, result, ref) ==
    [op |-> "start", user |-> u, result |-> result, ref |-> ref,
     named |-> None, log |-> None]
Event(op, u, result) ==
    [op |-> op, user |-> u, result |-> result, ref |-> None,
     named |-> None, log |-> None]

\* the id a token of the form "ref_" + id names, whether or not it is in
\* the store
Named(tok) ==
    IF StartsWithRef(tok) /\ Len(tok) = 2 /\ tok[2] # "ref_" THEN tok[2] ELSE None

\* /start step e, sent with token tok
From(e, tok) == [e EXCEPT !.named = Named(tok)]

\* a slip: `except: pass`, the failure of a save leaves no log record
SaveLog_Silent(so) == IF so = "ok" THEN "info" ELSE None

\* what save_users() logs: logger.info after the dump, logger.error in its
\* except clause (main.py:84-86); nothing if the process died inside it
SaveLog(so) ==
    CASE so = "ok"                            -> "info"
      [] so \in {"open_fails", "write_fails"} -> "error"
      [] so = "crash"                         -> None

\* handler step e, in which save_users() ended as so
Logged(e, so) == [e EXCEPT !.log = SaveLog(so)]

NoWaiting  == [u \in Ids |-> FALSE]
NoReplying == [u \in Ids |-> 0]

RECURSIVE Total(_, _)
Total(f, S) ==
    IF S = {} THEN 0
    ELSE LET x == CHOOSE y \in S : TRUE IN f[x] + Total(f, S \ {x})

\* the handle_message calls now suspended at their reply
Inflight == Total(replying, Ids)

\* the process is gone: nothing of its memory is left
Down ==
    /\ up' = FALSE
    /\ users_db' = <<>>
    /\ used_addresses' = {}
    /\ waiting' = NoWaiting
    /\ replying' = NoReplying

-----------------------------------------------------------------------------
(* Handlers of src/main.py *)

\* start_command up to its await of send_main_menu.  A crash before
\* save_users() loses only memory and is the action Crash; so = "crash" is
\* the process dying inside save_users().
StartCommand(u, tok, so) ==
    /\ up
    /\ IF u \in DOMAIN users_db
       THEN /\ so = "ok"
            /\ users_db' = StartExisting(users_db, u, tok)
            /\ last' = From(StartEvent(u, "existing", ResolveReferrer(users_db, tok)), tok)
            /\ UNCHANGED <<up, used_addresses, waiting, replying, disk, now>>
       ELSE /\ now < MaxTime
            /\ now' = now + 1
            /\ disk' = StartSave(users_db, u, tok, now,
                                 used_addresses \cup {AssignTeamAddress(users_db)},
                                 so, disk)
            /\ IF so = "crash"
               THEN /\ Down
                    /\ last' = Logged(From(StartEvent(u, "crashed", ResolveReferrer(users_db, tok)), tok), so)
               ELSE /\ users_db' = Register(users_db, u, tok, now)
                    /\ used_addresses' = used_addresses \cup {AssignTeamAddress(users_db)}
                    /\ last' = Logged(From(StartEvent(u, "created", ResolveReferrer(users_db, tok)), tok), so)
                    /\ UNCHANGED <<up, waiting, replying>>
    /\ UNCHANGED <<tasks, running>>

\* a slip that would be a fix: the prompt's Cancel button, whose
\* callback_data is "rewards", ends the wait
AfterButton_CancelClears(w, u, action) ==
    IF action = "rewards" THEN [w EXCEPT ![u] = FALSE] ELSE w

\* the waiting flags after a button other than set_rewards_wallet: no
\* branch of button_callback writes user_data (main.py:257-418)
AfterButton(w, u, action) == w

\* button_callback; only set_rewards_wallet touches state, and only after its
\* prompt was sent (sent = FALSE: the transport raised before main.py:623)
ButtonCallback(u, action, sent) ==
    /\ up
    /\ IF u \notin DOMAIN users_db
       THEN /\ sent
            /\ last' = Event("button", u, "not_found")
            /\ UNCHANGED waiting
       ELSE IF action = "set_rewards_wallet"
       THEN IF sent
            THEN /\ waiting' = [waiting EXCEPT ![u] = TRUE]
                 /\ last' = Event("button", u, "prompted")
            ELSE /\ last' = Event("button", u, "send_failed")
                 /\ UNCHANGED waiting
       ELSE /\ sent
            /\ last' = Event("button", u, IF action = "bogus" THEN "unknown" ELSE "shown")
            /\ waiting' = AfterButton(waiting, u, action)
    /\ UNCHANGED <<up, users_db, used_addresses, replying, disk, now, tasks, running>>

\* a slip: the flag is not consulted, every free text is a candidate
WaitingForWallet_Always(w, u) == TRUE

\* a slip: one flag for the whole bot instead of one per user
WaitingForWallet_Anyone(w, u) == \E v \in DOMAIN w : w[v]

\* context.user_data.get('waiting_for_wallet'): user_data is the
\* dictionary of the user who sent the update
WaitingForWallet(w, u) == w[u]

\* handle_message up to its first await
HandleMessage(u, text, so) ==
    /\ up
    /\ IF ~WaitingForWallet(waiting, u)
       THEN /\ so = "ok"
            /\ last' = Event("message", u, "unrecognized")
            /\ UNCHANGED <<up, users_db, used_addresses, waiting, replying, disk, now>>
       ELSE IF ~ValidWallet(Strip(text))
       THEN \* the reply is sent and the handler returns at main.py:651
            /\ so = "ok"
            /\ users_db' = HandleWallet(users_db, u, text, now)
            /\ waiting' = AfterRejected(waiting, u)
            /\ last' = Event("message", u, "rejected")
            /\ UNCHANGED <<up, used_addresses, replying, disk, now>>
       ELSE IF u \notin DOMAIN users_db
       THEN /\ so = "ok"
            /\ Inflight < MaxInflight
            /\ replying' = [replying EXCEPT ![u] = @ + 1]
            /\ last' = Event("message", u, "not_found")
            /\ UNCHANGED <<up, users_db, used_addresses, waiting, disk, now>>
       ELSE /\ now < MaxWalletTime
            /\ Inflight < MaxInflight
            /\ now' = now + 1
            /\ disk' = SaveUsers(HandleWallet(users_db, u, text, now),
                                 used_addresses, now, so, disk)
            /\ IF so = "crash"
               THEN /\ Down
                    /\ last' = Logged(Event("message", u, "crashed"), so)
               ELSE /\ users_db' = HandleWallet(users_db, u, text, now)
                    /\ replying' = [replying EXCEPT ![u] = @ + 1]
                    /\ last' = Logged(Event("message", u, "updated"), so)
                    /\ UNCHANGED <<up, used_addresses, waiting>>
    /\ UNCHANGED <<tasks, running>>

\* a slip: main.py:654 left out, the flag survives the accepted input
ReplyDone_FlagKept(u) ==
    /\ up
    /\ replying[u] > 0
    /\ replying' = [replying EXCEPT ![u] = @ - 1]
    /\ last' = Event("reply", u, "sent")
    /\ UNCHANGED <<up, users_db, used_addresses, waiting, disk, now, tasks, running>>

\* handle_message after its await: the reply went out, the flag is cleared
ReplyDone(u) ==
    /\ up
    /\ replying[u] > 0
    /\ replying' = [replying EXCEPT ![u] = @ - 1]
    /\ waiting' = [waiting EXCEPT ![u] = FALSE]
    /\ last' = Event("reply", u, "sent")
    /\ UNCHANGED <<up, users_db, used_addresses, disk, now, tasks, running>>

\* the awaited reply raised: handle_message ends before main.py:654
ReplyFailed(u) ==
    /\ up
    /\ replying[u] > 0
    /\ replying' = [replying EXCEPT ![u] = @ - 1]
    /\ last' = Event("reply", u, "failed")
    /\ UNCHANGED <<up, users_db, used_addresses, waiting, disk, now, tasks, running>>

\* the process dies between two writes of the file
Crash ==
    /\ up
    /\ Down
    /\ last' = Event("crash", None, "down")
    /\ UNCHANGED <<disk, now, tasks, running>>

\* TrojanBot.__init__: load_users(), with its re-save after a migration
Restart(so) ==
    /\ ~up
    /\ LET ld == LoadUsers(disk)
       IN  IF ld.migrated
           THEN /\ now < MaxTime
                /\ now' = now + 1
                /\ disk' = SaveUsers(ld.users, ld.used, now, so, disk)
                /\ IF so = "crash"
                   THEN /\ Down
                        /\ last' = Logged(Event("restart", None, "crashed"), so)
                   ELSE /\ up' = TRUE
                        /\ users_db' = ld.users
                        /\ used_addresses' = ld.used
                        /\ last' = Logged(Event("restart", None, "migrated"), so)
                        /\ UNCHANGED <<waiting, replying>>
           ELSE /\ so = "ok"
                /\ up' = TRUE
                /\ users_db' = ld.users
                /\ used_addresses' = ld.used
                /\ last' = Event("restart", None, "loaded")
                /\ UNCHANGED <<waiting, replying, disk, now>>
    /\ UNCHANGED <<tasks, running>>

-----------------------------------------------------------------------------
(* Spec: the running bot, from a first start with no users.json *)

Init ==
    /\ up = TRUE
    /\ users_db = <<>>
    /\ used_addresses = {}
    /\ waiting = NoWaiting
    /\ replying = NoReplying
    /\ disk = Missing
    /\ now = 0
    /\ last = Event("init", None, "loaded")
    /\ tasks = <<>>
    /\ running = None

Next ==
    \/ \E u \in Users, tok \in Tokens : StartCommand(u, tok, "ok")
    \/ \E u \in Users, a \in ButtonActions, sent \in BOOLEAN : ButtonCallback(u, a, sent)
    \/ \E u \in Users, text \in Texts : HandleMessage(u, text, "ok")
    \/ \E u \in Users : ReplyDone(u)
    \/ \E u \in Users : ReplyFailed(u)

Spec == Init /\ [][Next]_vars

-----------------------------------------------------------------------------
(* SpecLedger: registrations of four users, any order, any token *)

LedgerTokens ==
    {NoToken} \cup {<<"ref_", u>> : u \in ChainUsers}
              \cup {<<"1">>, <<"ref_", "ref_", "1">>, <<"ref_", "1", "ref_">>,
                    <<"ref_", "9">>, <<"ref_">>, <<"x", "ref_", "1">>}

NextLedger ==
    \/ \E u \in ChainUsers, tok \in LedgerTokens : StartCommand(u, tok, "ok")
    \/ \E u \in ChainUsers, a \in {"rewards", "bogus"} : ButtonCallback(u, a, TRUE)

SpecLedger == Init /\ [][NextLedger]_vars

-----------------------------------------------------------------------------
(* SpecCrash: two users, with failing saves, crashes and restarts *)

CrashTokens == {NoToken, <<"ref_", "1">>, <<"ref_", "2">>}

CrashTexts == {Str("w", 44, 0, 0), Str("w", 45, 0, 0)}

NextCrash ==
    \/ \E u \in CrashUsers, tok \in CrashTokens, so \in SaveOutcomes : StartCommand(u, tok, so)
    \/ \E u \in CrashUsers : ButtonCallback(u, "set_rewards_wallet", TRUE)
    \/ \E u \in CrashUsers, text \in CrashTexts, so \in SaveOutcomes : HandleMessage(u, text, so)
    \/ \E u \in CrashUsers : ReplyDone(u)
    \/ \E u \in CrashUsers : ReplyFailed(u)
    \/ Crash
    \/ \E so \in SaveOutcomes : Restart(so)

SpecCrash == Init /\ [][NextCrash]_vars

-----------------------------------------------------------------------------
(* SpecLoad: a process starting on a users.json left by an earlier run:    *)
(* current records, records written before rewards_wallet existed, and     *)
(* damaged records; then the same events as SpecCrash.                     *)

\* a record as stored before the rewards_wallet field was introduced
LegacyRecord(rec) == [f \in DOMAIN rec \ {"rewards_wallet"} |-> rec[f]]

\* a stored record that lost its address fields
DamagedRecord(rec) ==
    [f \in DOMAIN rec \ {"rewards_wallet", "team_address"} |-> rec[f]]

RecordKinds == {"current", "legacy", "damaged"}

StoredRecord(rec, kind) ==
    CASE kind = "current" -> DumpRecord(rec)
      [] kind = "legacy"  -> LegacyRecord(DumpRecord(rec))
      [] kind = "damaged" -> DamagedRecord(DumpRecord(rec))

\* the store of the earlier run: "1", and "2" referred by "1" with a
\* rewards wallet of its own; its clock readings precede this run's
EarlierDb ==
    SetWallet(Register(Register(<<>>, "1", NoToken, -3), "2", <<"ref_", "1">>, -2),
              "2", Str("w", 40, 0, 0), -1)

\* users.json holding the earlier store, each record stored as kinds says
StoredFile(kinds) ==
    [ kind           |-> "ok",
      users          |-> [u \in DOMAIN EarlierDb |-> StoredRecord(EarlierDb[u], kinds[u])],
      used_addresses |-> PoolAddresses,
      last_updated   |-> -1 ]

LoadDisks ==
    {Missing, Truncated} \cup {StoredFile(k) : k \in [DOMAIN EarlierDb -> RecordKinds]}

InitLoad ==
    /\ up = FALSE
    /\ users_db = <<>>
    /\ used_addresses = {}
    /\ waiting = NoWaiting
    /\ replying = NoReplying
    /\ disk \in LoadDisks
    /\ now = 0
    /\ last = Event("init", None, "down")
    /\ tasks = <<>>
    /\ running = None

\* the events of SpecCrash, and a third user who registers
NextLoad ==
    \/ NextCrash
    \/ \E tok \in CrashTokens : StartCommand("3", tok, "ok")

SpecLoad == InitLoad /\ [][NextLoad]_vars

-----------------------------------------------------------------------------
(* SpecRace: two /start updates of new users handled at the same time.     *)
(* start_command is taken statement by statement; `users_db[r][k] += 1` is *)
(* a load followed by a store.  A coroutine keeps the event loop until it  *)
(* reaches an await.                                                       *)

Racers == {"3", "4"}

RaceTokens == {NoToken, <<"ref_", "1">>, <<"ref_", "2">>}

\* the store when the two updates arrive: "1", and "2" referred by "1"
RaceDb == Register(Register(<<>>, "1", NoToken, 0), "2", <<"ref_", "1">>, 1)

\* the statements of start_command at which the coroutine is inside the
\* check-existence / increment / insert sequence (main.py:146-181)
CriticalLabels ==
    {"assign", "resolve", "load_direct", "store_direct", "grand",
     "load_indirect", "store_indirect", "insert", "save"}

\* preemptive threads instead of coroutines: any statement may be the last
\* one before another handler runs
Yields_EveryStatement(label) == TRUE

\* TRUE for the statements that hand the event loop back: the only await of
\* start_command is `await self.send_main_menu(...)`, main.py:186
Yields(label) == label = "menu"

Goto(t, label) == [tasks EXCEPT ![t].pc = label]

\* main.py:144  if telegram_id not in users_db
RaceCheck(t) ==
    /\ tasks[t].pc = "check"
    /\ tasks' = Goto(t, IF t \notin DOMAIN users_db THEN "assign" ELSE "menu")
    /\ UNCHANGED <<users_db, used_addresses, disk, now>>

\* main.py:146  team_address = self.assign_team_address()
RaceAssign(t) ==
    /\ tasks[t].pc = "assign"
    /\ tasks' = [tasks EXCEPT ![t].pc = "resolve",
                              ![t].team_address = AssignTeamAddress(users_db)]
    /\ used_addresses' = used_addresses \cup {AssignTeamAddress(users_db)}
    /\ UNCHANGED <<users_db, disk, now>>

\* main.py:149-153
RaceResolve(t) ==
    /\ tasks[t].pc = "resolve"
    /\ LET ref == ResolveReferrer(users_db, tasks[t].tok)
       IN  tasks' = [tasks EXCEPT ![t].referred_by = ref,
                                  ![t].pc = IF ref = None THEN "insert" ELSE "load_direct"]
    /\ UNCHANGED <<users_db, used_addresses, disk, now>>

\* main.py:155, the load of `+= 1`
RaceLoadDirect(t) ==
    /\ tasks[t].pc = "load_direct"
    /\ tasks' = [tasks EXCEPT ![t].pc = "store_direct",
                              ![t].tmp = users_db[tasks[t].referred_by].direct_referrals]
    /\ UNCHANGED <<users_db, used_addresses, disk, now>>

\* main.py:155, the store of `+= 1`
RaceStoreDirect(t) ==
    /\ tasks[t].pc = "store_direct"
    /\ users_db' = [users_db EXCEPT ![tasks[t].referred_by].direct_referrals = tasks[t].tmp + 1]
    /\ tasks' = Goto(t, "grand")
    /\ UNCHANGED <<used_addresses, disk, now>>

\* main.py:158-160
RaceGrand(t) ==
    /\ tasks[t].pc = "grand"
    /\ LET g == users_db[tasks[t].referred_by].referred_by
       IN  tasks' = Goto(t, IF g # None /\ g \in DOMAIN users_db
                            THEN "load_indirect" ELSE "insert")
    /\ UNCHANGED <<users_db, used_addresses, disk, now>>

\* main.py:161, the load of `+= 1`
RaceLoadIndirect(t) ==
    /\ tasks[t].pc = "load_indirect"
    /\ LET g == users_db[tasks[t].referred_by].referred_by
       IN  tasks' = [tasks EXCEPT ![t].pc = "store_indirect",
                                  ![t].tmp = users_db[g].indirect_referrals]
    /\ UNCHANGED <<users_db, used_addresses, disk, now>>

\* main.py:161, the store of `+= 1`
RaceStoreIndirect(t) ==
    /\ tasks[t].pc = "store_indirect"
    /\ LET g == users_db[tasks[t].referred_by].referred_by
       IN  users_db' = [users_db EXCEPT ![g].indirect_referrals = tasks[t].tmp + 1]
    /\ tasks' = Goto(t, "insert")
    /\ UNCHANGED <<used_addresses, disk, now>>

\* main.py:164-178  users_db[telegram_id] = {...}
RaceInsert(t) ==
    /\ tasks[t].pc = "insert"
    /\ users_db' = [u \in DOMAIN users_db \cup {t} |->
                      IF u = t
                      THEN NewRecord(t, tasks[t].team_address, tasks[t].referred_by, now)
                      ELSE users_db[u]]
    /\ tasks' = Goto(t, "save")
    /\ UNCHANGED <<used_addresses, disk, now>>

\* main.py:181  save_users()
RaceSave(t) ==
    /\ tasks[t].pc = "save"
    /\ disk' = Snapshot(users_db, used_addresses, now)
    /\ now' = now + 1
    /\ tasks' = Goto(t, "menu")
    /\ UNCHANGED <<users_db, used_addresses>>

\* main.py:186  await self.send_main_menu(update, context)
RaceMenu(t) ==
    /\ tasks[t].pc = "menu"
    /\ tasks' = Goto(t, "done")
    /\ UNCHANGED <<users_db, used_addresses, disk, now>>

\* one statement of coroutine t, which holds or takes the event loop
RaceStep(t) ==
    /\ running \in {None, t}
    /\ \/ RaceCheck(t)
       \/ RaceAssign(t)
       \/ RaceResolve(t)
       \/ RaceLoadDirect(t)
       \/ RaceStoreDirect(t)
       \/ RaceGrand(t)
       \/ RaceLoadIndirect(t)
       \/ RaceStoreIndirect(t)
       \/ RaceInsert(t)
       \/ RaceSave(t)
       \/ RaceMenu(t)
    /\ running' = IF Yields(tasks[t].pc) THEN None ELSE t
    /\ UNCHANGED <<up, waiting, replying, last>>

InitRace ==
    /\ up = TRUE
    /\ users_db = RaceDb
    /\ used_addresses = PoolAddresses
    /\ waiting = NoWaiting
    /\ replying = NoReplying
    /\ disk = Snapshot(RaceDb, PoolAddresses, 1)
    /\ now = 2
    /\ last = StartEvent("2", "created", "1")
    /\ tasks \in [Racers -> [pc : {"check"}, tok : RaceTokens,
                             team_address : {Str("", 0, 0, 0)},
                             referred_by : {None}, tmp : {0}]]
    /\ running = None

NextRace == \E t \in Racers : RaceStep(t)

SpecRace == InitRace /\ [][NextRace]_vars

-----------------------------------------------------------------------------
(* SpecPool: registrations in src/bot.py, the revision that keeps the store *)
(* in memory only and hands out addresses with random.choice.              *)
(* assign_team_address is taken statement by statement; start_command has  *)
(* no await before the record is inserted, so one call runs at a time.     *)

PoolUsers == {"1", "2", "3"}

PoolTokens == {NoToken, <<"ref_", "1">>, <<"ref_", "2">>}

\* the record literal of bot.py:100-113, which has no rewards_wallet
BotRecord(u, addr, ref, t) == LegacyRecord(NewRecord(u, addr, ref, t))

\* bot.py:55  len(used_addresses) >= len(TEAMS)
AllUsed(used) == Cardinality(used) >= Cardinality(DOMAIN TEAMS)

\* a slip: the membership test of the search loop dropped
Unused_Always(address, used) == TRUE

\* bot.py:61  TEAMS[team_name] not in used_addresses
Unused(address, used) == address \notin used

\* bot.py:67-80: /start; a new user enters assign_team_address
BotStart(u, tok) ==
    /\ up
    /\ tasks = <<>>
    /\ IF u \in DOMAIN users_db
       THEN /\ last' = From(StartEvent(u, "existing", ResolveReferrer(users_db, tok)), tok)
            /\ UNCHANGED <<tasks, running>>
       ELSE /\ tasks' = (u :> [pc |-> "test", tok |-> tok, team_name |-> None])
            /\ running' = u
            /\ last' = From(StartEvent(u, "assigning", None), tok)
    /\ UNCHANGED <<up, users_db, used_addresses, waiting, replying, disk, now>>

\* bot.py:55  if len(used_addresses) >= len(TEAMS)
BotTest(u) ==
    /\ u \in DOMAIN tasks
    /\ tasks[u].pc = "test"
    /\ tasks' = [tasks EXCEPT ![u].pc = IF AllUsed(used_addresses) THEN "any" ELSE "search"]
    /\ UNCHANGED <<up, users_db, used_addresses, waiting, replying, disk, now, last, running>>

\* bot.py:56  team_name = random.choice(available_teams), k the outcome
BotChoice(u, k) ==
    /\ u \in DOMAIN tasks
    /\ tasks[u].pc = "any"
    /\ tasks' = [tasks EXCEPT ![u].team_name = k, ![u].pc = "add"]
    /\ UNCHANGED <<up, users_db, used_addresses, waiting, replying, disk, now, last, running>>

\* bot.py:59-62  one turn of the search loop, k the outcome of random.choice
BotSearch(u, k) ==
    /\ u \in DOMAIN tasks
    /\ tasks[u].pc = "search"
    /\ tasks' = [tasks EXCEPT ![u].team_name = k,
                              ![u].pc = IF Unused(TEAMS[k], used_addresses)
                                        THEN "add" ELSE "search"]
    /\ UNCHANGED <<up, users_db, used_addresses, waiting, replying, disk, now, last, running>>

\* a turn of the search loop that draws an address not yet used
BotSearchHit ==
    \E u \in PoolUsers, k \in DOMAIN TEAMS :
        BotSearch(u, k) /\ Unused(TEAMS[k], used_addresses)

\* bot.py:64-66 and 83-115: the address is added to the used set and
\* returned, the referral is credited and the record inserted
BotInsert(u) ==
    /\ u \in DOMAIN tasks
    /\ tasks[u].pc = "add"
    /\ LET addr == TEAMS[tasks[u].team_name]
           ref  == ResolveReferrer(users_db, tasks[u].tok)
       IN  /\ used_addresses' = used_addresses \cup {addr}
           /\ users_db' = Credit(users_db, ref) @@ (u :> BotRecord(u, addr, ref, now))
           /\ last' = From(StartEvent(u, "created", ref), tasks[u].tok)
    /\ now' = now + 1
    /\ tasks' = <<>>
    /\ running' = None
    /\ UNCHANGED <<up, waiting, replying, disk>>

NextPool ==
    \/ \E u \in PoolUsers, tok \in PoolTokens : BotStart(u, tok)
    \/ \E u \in PoolUsers : BotTest(u)
    \/ \E u \in PoolUsers, k \in DOMAIN TEAMS : BotChoice(u, k)
    \/ \E u \in PoolUsers, k \in DOMAIN TEAMS : BotSearch(u, k)
    \/ \E u \in PoolUsers : BotInsert(u)

\* random.choice is fair: a draw that is possible at every turn of the loop
\* is eventually made
SpecPool == Init /\ [][NextPool]_vars /\ WF_vars(BotSearchHit)

-----------------------------------------------------------------------------
(* Properties *)

\* the users of store db that were referred by U
Referees(db, U) == {V \in DOMAIN db : db[V].referred_by = U}

\* the users of store db whose referrer was referred by U
GrandReferees(db, U) ==
    {W \in DOMAIN db : \E V \in DOMAIN db : db[W].referred_by = V /\ db[V].referred_by = U}

\* C1: in every reachable state, for every user U the stored directReferrals
\* of U equals the number of stored users whose referredBy is U.
C1_DirectCount ==
    \A U \in DOMAIN users_db :
        users_db[U].direct_referrals = Cardinality(Referees(users_db, U))

\* C1's case: a user with two referees, in a store where a rewards wallet
\* was changed.
C1_Witness ==
    /\ \E U \in DOMAIN users_db : users_db[U].direct_referrals = 2
    /\ \E V \in DOMAIN users_db : users_db[V].rewards_wallet # users_db[V].team_address

\* C2: in every reachable state, for every user U the stored
\* indirectReferrals of U equals the number of stored users whose referrer's
\* referrer is U: grandchildren only, never a deeper descendant.
C2_IndirectCount ==
    \A U \in DOMAIN users_db :
        users_db[U].indirect_referrals = Cardinality(GrandReferees(users_db, U))

\* C2's case: a chain A <- B <- C <- D with indirectReferrals[A] = 1.
C2_Witness ==
    \E A, B, C, D \in DOMAIN users_db :
        /\ users_db[B].referred_by = A
        /\ users_db[C].referred_by = B
        /\ users_db[D].referred_by = C
        /\ users_db[A].indirect_referrals = 1
        /\ users_db[B].indirect_referrals = 1

\* a step that ends a handle_message call of user u that found u waiting
MessageEnds(u) ==
    /\ last'.user = u
    /\ \/ last'.op = "message" /\ last'.result = "rejected"
       \/ last'.op = "reply"

C4_AtomicSave ==
    [][(up /\ ~up') => (disk' = disk \/ disk'.kind = "ok")]_vars

\* counters of a store agree with its referred_by links
Consistent(db) ==
    \A U \in DOMAIN db :
        /\ db[U].direct_referrals = Cardinality(Referees(db, U))
        /\ db[U].indirect_referrals = Cardinality(GrandReferees(db, U))
        /\ db[U].referred_by # None => db[U].referred_by \in DOMAIN db

\* C5: whatever load() would build from the file, at any moment and after
\* any crash, shows no partial registration: no credited counter without the
\* referee's record and no referee without the credit.
C5_NoPartialRegistration == Consistent(LoadUsers(disk).users)

\* C5's case: the process died inside the save of a registration that had
\* resolved a referrer.
C5_Witness ==
    /\ ~up
    /\ last.op = "start"
    /\ last.result = "crashed"
    /\ last.ref # None

\* the referrers named by the tokens of the coroutines in S
Credits(S, r) == Cardinality({t \in S : tasks[t].tok = <<"ref_", r>>})

\* coroutines that have passed the store of their direct credit
Credited == {t \in Racers : tasks[t].pc \in {"grand", "load_indirect", "store_indirect",
                                             "insert", "save", "menu", "done"}}

\* C6: for every interleaving of two /start handlers of new users, at most
\* one of them is between its existence check and its save, every direct
\* credit made so far is in the referrer's counter, and once both are done
\* both records exist and each referrer's counter rose by the number of
\* tokens naming it.
C6_CriticalSection ==
    /\ Cardinality({t \in Racers : tasks[t].pc \in CriticalLabels}) <= 1
    /\ \A r \in DOMAIN RaceDb :
          users_db[r].direct_referrals =
              RaceDb[r].direct_referrals + Credits(Credited, r)
    /\ (\A t \in Racers : tasks[t].pc = "done") =>
          /\ Racers \subseteq DOMAIN users_db
          /\ Consistent(users_db)

\* C6's case: both handlers are done, both tokens named user "1".
C6_Witness ==
    /\ \A t \in Racers : tasks[t].pc = "done" /\ tasks[t].tok = <<"ref_", "1">>
    /\ users_db["1"].direct_referrals = RaceDb["1"].direct_referrals + 2

\* the number of users created before u
Rank(db, u) == Cardinality({v \in DOMAIN db : db[v].created_at.t < db[u].created_at.t})

Holders(db, a) == {v \in DOMAIN db : db[v].team_address = a}

\* C7: the k-th user created (k = 0, 1, ...) holds pool entry k mod 2, and
\* the numbers of users per pool address differ by at most 1.
C7_Alternation ==
    /\ \A u \in DOMAIN users_db :
          users_db[u].team_address =
              IF Rank(users_db, u) % 2 = 0 THEN TEAMS["Team 1"] ELSE TEAMS["Team 2"]
    /\ Cardinality(Holders(users_db, TEAMS["Team 1"]))
         - Cardinality(Holders(users_db, TEAMS["Team 2"])) \in {0, 1}

\* C7's case: four users were created.
C7_Witness == Cardinality(DOMAIN users_db) = 4

\* a step in which handle_message took `text` from registered, waiting u
CandidateStep(u, text) ==
    /\ waiting[u]
    /\ u \in DOMAIN users_db
    /\ HandleMessage(u, text, "ok")

\* C8 as stated: a candidate is accepted iff the message has 32 to 44
\* characters.
C8_RawLength ==
    [][\A u \in Users, text \in Texts : CandidateStep(u, text) =>
          (last'.result = "updated"
              <=> (StrLen(text) >= MinWalletLen /\ StrLen(text) <= MaxWalletLen))]_vars

\* C8 amended: a candidate is accepted iff the message, with its leading and
\* trailing whitespace removed, has 32 to 44 characters; the stripped string
\* is what is stored.
C8_StrippedLength ==
    [][\A u \in Users, text \in Texts : CandidateStep(u, text) =>
          /\ last'.result \in {"updated", "rejected"}
          /\ last'.result = "updated"
                <=> (StrLen(Strip(text)) >= MinWalletLen /\ StrLen(Strip(text)) <= MaxWalletLen)
          /\ last'.result = "updated" => users_db'[u].rewards_wallet = Strip(text)
      ]_vars

\* C8's case: a candidate of 44 characters (45 with a leading blank) was
\* just accepted.
C8_Witness ==
    /\ last.op = "message"
    /\ last.result = "updated"
    /\ StrLen(users_db[last.user].rewards_wallet) = MaxWalletLen

\* C9: a candidate rejected by the length check changes no user record, not
\* the used-address set and not the file.
C9_RejectedChangesNothing ==
    [][(last'.op = "message" /\ last'.result = "rejected") =>
          /\ users_db' = users_db
          /\ used_addresses' = used_addresses
          /\ disk' = disk]_vars

\* C9's case: a candidate was just rejected, for a user whose wallet had
\* been changed before.
C9_Witness ==
    /\ last.op = "message"
    /\ last.result = "rejected"
    /\ users_db[last.user].rewards_wallet # users_db[last.user].team_address

\* C10 as stated: a registration with token T credits an existing user R
\* only if T is exactly "ref_" followed by R's id.
C10_ExactToken ==
    [][\A u \in ChainUsers, tok \in LedgerTokens :
          (u \notin DOMAIN users_db /\ StartCommand(u, tok, "ok")) =>
              \A R \in DOMAIN users_db :
                  (\/ users_db'[u].referred_by = R
                   \/ users_db'[R].direct_referrals # users_db[R].direct_referrals)
                      => tok = <<"ref_", R>>]_vars

\* the referral counters of the users of store db
Counters(db) ==
    [R \in DOMAIN db |-> <<db[R].direct_referrals, db[R].indirect_referrals>>]

\* C11: a new user registering with a token that names itself or an id not
\* in the store is created with referredBy = None and zero counters, and no
\* counter of any other user changes.
C11_NoReferrer ==
    [][\A u \in ChainUsers, x \in ChainUsers \cup {"9"} :
          (/\ u \notin DOMAIN users_db
           /\ x = u \/ x \notin DOMAIN users_db
           /\ StartCommand(u, <<"ref_", x>>, "ok")) =>
              /\ DOMAIN users_db' = DOMAIN users_db \cup {u}
              /\ users_db'[u].referred_by = None
              /\ Counters(users_db')[u] = <<0, 0>>
              /\ \A R \in DOMAIN users_db :
                     Counters(users_db')[R] = Counters(users_db)[R]]_vars

\* C11's case: a user was created by a /start whose token names that user,
\* in a store that holds a possible referrer.
C11_Witness ==
    /\ last.op = "start"
    /\ last.result = "created"
    /\ last.named = last.user
    /\ Cardinality(DOMAIN users_db) >= 2
    /\ users_db[last.user].referred_by = None

\* C12: /start of a user that is already in the store, whatever token it
\* carries, changes no record, no counter, not the used-address set and not
\* the file.
C12_ExistingStartNoOp ==
    [][\A u \in Users, tok \in Tokens :
          (u \in DOMAIN users_db /\ StartCommand(u, tok, "ok")) =>
              UNCHANGED <<users_db, used_addresses, disk>>]_vars

\* C12's case: an existing user sent /start with a token that names another
\* existing user, who is not its referrer.
C12_Witness ==
    /\ last.op = "start"
    /\ last.result = "existing"
    /\ last.ref \in DOMAIN users_db \ {last.user}
    /\ users_db[last.user].referred_by # last.ref

\* C13: a record's depositAddress is always a pool address, is written in
\* the step that creates the record, is the stored one after a load (with
\* or without migration), and is changed by no later step.
C13_DepositAddressFixed ==
    [][/\ \A u \in DOMAIN users_db' : users_db'[u].team_address \in PoolAddresses
       /\ \A u \in DOMAIN users_db \cap DOMAIN users_db' :
             users_db'[u].team_address = users_db[u].team_address
       /\ (~up /\ up') =>
             \A u \in DOMAIN users_db' :
                 users_db'[u].team_address = disk.users[u].team_address
       /\ up =>
             \A u \in DOMAIN users_db' \ DOMAIN users_db :
                 last'.op = "start" /\ last'.user = u /\ last'.result = "created"
      ]_vars

\* C13's case: a load has just backfilled a record, next to a record whose
\* rewards wallet is no pool address.
C13_Witness ==
    /\ last.op = "restart"
    /\ last.result = "migrated"
    /\ \E u \in DOMAIN users_db : users_db[u].rewards_wallet = users_db[u].team_address
    /\ \E v \in DOMAIN users_db : users_db[v].rewards_wallet \notin PoolAddresses

\* C14: a record's referredBy is the referrer resolved in the step that
\* creates the record, and no later step (a further /start of that user
\* with any token, a wallet update, another user's registration) changes it.
C14_ReferredByFixed ==
    [][/\ \A u \in DOMAIN users_db \cap DOMAIN users_db' :
             users_db'[u].referred_by = users_db[u].referred_by
       /\ \A u \in DOMAIN users_db' \ DOMAIN users_db :
             users_db'[u].referred_by = last'.ref
      ]_vars

\* C14's case: a user that has a referrer sent /start again with a token
\* naming a different existing user.
C14_Witness ==
    /\ last.op = "start"
    /\ last.result = "existing"
    /\ last.ref \in DOMAIN users_db \ {last.user}
    /\ users_db[last.user].referred_by \in DOMAIN users_db \ {last.ref}

\* following referred_by from u never comes back to a user in seen
RECURSIVE NoRevisit(_, _, _)
NoRevisit(db, u, seen) ==
    IF u = None \/ u \notin DOMAIN db THEN TRUE
    ELSE IF u \in seen THEN FALSE
    ELSE NoRevisit(db, db[u].referred_by, seen \cup {u})

\* C15: in every reachable state each referredBy that is set names another
\* user of the store, created before the referring record, and following
\* referredBy links from any user never revisits a user.
C15_Forest ==
    \A u \in DOMAIN users_db :
        /\ users_db[u].referred_by # None =>
              /\ users_db[u].referred_by \in DOMAIN users_db \ {u}
              /\ users_db[users_db[u].referred_by].created_at.t < users_db[u].created_at.t
        /\ NoRevisit(users_db, u, {})

\* C15's case: a forest of two trees, each a root with one referee.
C15_Witness ==
    \E A, B, C, D \in DOMAIN users_db :
        /\ A # C
        /\ users_db[A].referred_by = None
        /\ users_db[C].referred_by = None
        /\ users_db[B].referred_by = A
        /\ users_db[D].referred_by = C

\* C16 as stated: for every reachable in-memory store, a successful save()
\* followed by load() yields a user map equal field for field to the one
\* saved, time stamps included, and the same used-address set.
C16_RoundTrip ==
    up => /\ LoadUsers(Snapshot(users_db, used_addresses, now)).users = users_db
          /\ LoadUsers(Snapshot(users_db, used_addresses, now)).used = used_addresses

\* record rec without its rewards_wallet field
WithoutWallet(rec) == [f \in DOMAIN rec \ {"rewards_wallet"} |-> rec[f]]

\* C17: a load of a readable snapshot backfills rewardsWallet from
\* depositAddress in exactly the records lacking it and leaves the other
\* records as stored; the file is rewritten by a load only if a record was
\* backfilled; and the re-saved file loads to the same store with nothing
\* left to migrate, so a second load changes neither store nor file.
C17_MigrationIdempotent ==
    [][(~up /\ up') =>
          /\ \A u \in DOMAIN users_db' :
                IF "rewards_wallet" \in DOMAIN disk.users[u]
                THEN users_db'[u] = disk.users[u]
                ELSE /\ users_db'[u].rewards_wallet = disk.users[u].team_address
                     /\ WithoutWallet(users_db'[u]) = disk.users[u]
          /\ disk' # disk =>
                \E u \in DOMAIN disk.users : "rewards_wallet" \notin DOMAIN disk.users[u]
          /\ (last'.result = "migrated" /\ last'.log = "info") =>
                /\ LoadUsers(disk').users = users_db'
                /\ LoadUsers(disk').used = used_addresses'
                /\ ~LoadUsers(disk').migrated
          /\ last'.result = "loaded" => disk' = disk
          /\ (users_db' # <<>> /\ NeedsMigration(disk)) => last'.result = "migrated"
      ]_vars

\* C17's case: the second load of a snapshot that the first load migrated
\* and re-saved: the file carries this run's first clock reading while
\* every record is older.
C17_Witness ==
    /\ last.op = "restart"
    /\ last.result = "loaded"
    /\ disk.kind = "ok"
    /\ disk.last_updated = 0
    /\ users_db # <<>>
    /\ \A u \in DOMAIN users_db : users_db[u].last_updated.t < 0
    /\ \E u \in DOMAIN users_db : users_db[u].rewards_wallet \notin PoolAddresses

\* a file load_users() cannot take: absent, unparseable, or holding a record
\* with neither rewards_wallet nor team_address
Unloadable(d) ==
    \/ d.kind # "ok"
    \/ \E u \in DOMAIN d.users : {"rewards_wallet", "team_address"} \cap DOMAIN d.users[u] = {}

\* C18: every load ends with the process running and is all or nothing:
\* from a missing or unparseable file, or a snapshot with a record that
\* cannot be migrated, the store and the used-address set are empty;
\* otherwise the store holds every record of the snapshot, each with a
\* rewardsWallet, and the snapshot's used-address set.
C18_LoadAllOrNothing ==
    [][(~up /\ last'.op = "restart" /\ last'.result # "crashed") =>
          /\ up'
          /\ IF Unloadable(disk)
             THEN users_db' = <<>> /\ used_addresses' = {}
             ELSE /\ DOMAIN users_db' = DOMAIN disk.users
                  /\ \A u \in DOMAIN users_db' :
                        /\ "rewards_wallet" \in DOMAIN users_db'[u]
                        /\ WithoutWallet(users_db'[u]) = WithoutWallet(disk.users[u])
                  /\ used_addresses' = disk.used_addresses
      ]_vars

\* C18's case: a load of a snapshot holding a legacy record and a record
\* that cannot be migrated ended with an empty store.
C18_Witness ==
    /\ up
    /\ last.op = "restart"
    /\ users_db = <<>>
    /\ used_addresses = {}
    /\ disk.kind = "ok"
    /\ \E u \in DOMAIN disk.users : "team_address" \notin DOMAIN disk.users[u]
    /\ \E v \in DOMAIN disk.users :
          /\ "team_address" \in DOMAIN disk.users[v]
          /\ "rewards_wallet" \notin DOMAIN disk.users[v]

\* the ways a save can fail with an I/O error while the process lives
IOErrors == {"open_fails", "write_fails"}

\* C19: when save_users() fails with an I/O error during a registration or
\* a wallet update, the handler goes on (the process stays up, the wallet
\* handler reaches its reply), the new record with its credits, or the new
\* rewardsWallet, is in the in-memory store, the file holds no new
\* snapshot, and the failure is logged as an error.
C19_SaveErrorKeepsMemory ==
    [][\A u \in CrashUsers, so \in IOErrors :
          /\ \A tok \in CrashTokens :
                (u \notin DOMAIN users_db /\ StartCommand(u, tok, so)) =>
                    /\ up'
                    /\ DOMAIN users_db' = DOMAIN users_db \cup {u}
                    /\ users_db'[u].referred_by = ResolveReferrer(users_db, tok)
                    /\ \A R \in DOMAIN users_db :
                          users_db'[R].direct_referrals =
                              users_db[R].direct_referrals
                                  + (IF ResolveReferrer(users_db, tok) = R THEN 1 ELSE 0)
                    /\ disk'.kind # "ok" \/ disk' = disk
                    /\ last'.result = "created"
                    /\ last'.log = "error"
          /\ \A text \in CrashTexts :
                (/\ waiting[u]
                 /\ u \in DOMAIN users_db
                 /\ ValidWallet(Strip(text))
                 /\ HandleMessage(u, text, so)) =>
                    /\ up'
                    /\ users_db'[u].rewards_wallet = Strip(text)
                    /\ users_db'[u].last_updated = DateTime(now)
                    /\ replying'[u] = replying[u] + 1
                    /\ disk'.kind # "ok" \/ disk' = disk
                    /\ last'.result = "updated"
                    /\ last'.log = "error"
      ]_vars

\* C19's case: a wallet update is in memory although its save failed
\* after truncating the file, and the failure was logged.
C19_Witness ==
    /\ up
    /\ last.op = "message"
    /\ last.result = "updated"
    /\ last.log = "error"
    /\ disk.kind = "truncated"
    /\ users_db[last.user].rewards_wallet \notin PoolAddresses

\* C20 as stated: every step that changes a user record changes that
\* record's lastUpdated too; in particular a registration that increments a
\* referrer's or a second-level ancestor's counter touches that record's
\* lastUpdated.
C20_LastUpdatedTouched ==
    [][\A u \in DOMAIN users_db \cap DOMAIN users_db' :
          users_db'[u] # users_db[u] =>
              users_db'[u].last_updated # users_db[u].last_updated]_vars

\* C21: while the process runs, every step keeps every user record of the
\* store: the same ids, each still the record created when it was created.
C21_IdsNeverShrink ==
    [][(up /\ up') =>
          \A u \in DOMAIN users_db :
              /\ u \in DOMAIN users_db'
              /\ users_db'[u].telegram_id = users_db[u].telegram_id
              /\ users_db'[u].created_at = users_db[u].created_at]_vars

\* C21's case: three users are in the store and the last event was a press
\* of a button with an unknown action.
C21_Witness ==
    /\ Cardinality(DOMAIN users_db) = 3
    /\ last.op = "button"
    /\ last.result = "unknown"
    /\ \E u \in DOMAIN users_db : users_db[u].rewards_wallet # users_db[u].team_address

\* C22: for a registered user who requested a wallet change, a free text
\* whose stripped length is valid sets the user's rewardsWallet to it and
\* writes a snapshot holding it; when that handler has sent its reply the
\* session is Idle; and a free text of a user whose session is Idle is
\* answered as unrecognized and changes neither store, file nor session.
C22_AcceptThenIdle ==
    [][\A u \in Users, text \in Texts :
          /\ (/\ waiting[u]
              /\ u \in DOMAIN users_db
              /\ ValidWallet(Strip(text))
              /\ HandleMessage(u, text, "ok")) =>
                 /\ users_db'[u].rewards_wallet = Strip(text)
                 /\ disk'.kind = "ok"
                 /\ disk'.users[u].rewards_wallet = Strip(text)
                 /\ LoadUsers(disk').used = used_addresses'
                 /\ replying'[u] = replying[u] + 1
          /\ ReplyDone(u) => ~waiting'[u]
          /\ (~waiting[u] /\ HandleMessage(u, text, "ok")) =>
                 /\ last'.result = "unrecognized"
                 /\ UNCHANGED <<users_db, used_addresses, disk, waiting>>
      ]_vars

\* C22's case: a user whose rewards wallet was set by an accepted input and
\* whose session returned to Idle sent a further free text, which was
\* answered as unrecognized.
C22_Witness ==
    /\ last.op = "message"
    /\ last.result = "unrecognized"
    /\ last.user \in DOMAIN users_db
    /\ users_db[last.user].rewards_wallet \notin PoolAddresses
    /\ ~waiting[last.user]
    /\ replying[last.user] = 0
    /\ disk.users[last.user].rewards_wallet = users_db[last.user].rewards_wallet

\* C23: a free text from a user whose session is Idle, registered or not,
\* changes no record, no counter, no rewardsWallet, not the file, the clock
\* or the pending replies, and every session stays as it was.
C23_IdleTextNoOp ==
    [][\A u \in Users, text \in Texts :
          (~waiting[u] /\ HandleMessage(u, text, "ok")) =>
              UNCHANGED <<users_db, used_addresses, disk, waiting, replying, now>>]_vars

\* C23's case: a free text came from a user who is not in
\* the store and never asked for a wallet change, while another user waits.
C23_Witness ==
    /\ last.op = "message"
    /\ last.result = "unrecognized"
    /\ last.user \notin DOMAIN users_db
    /\ \E v \in DOMAIN users_db : waiting[v]

\* the outcomes of a save after which the process still runs
Survived == {"ok", "open_fails", "write_fails"}

\* C24: a button press of user A, the set-rewards-wallet request included,
\* changes no session but A's; a free text of an Idle user B changes no
\* session and no rewardsWallet; a free text of B changes no record and no
\* session but B's; and while the process runs a rewardsWallet changes only
\* in a free-text step of its own user, taken while that user was waiting.
C24_SessionPerUser ==
    [][/\ \A A \in CrashUsers, a \in ButtonActions, sent \in BOOLEAN :
             ButtonCallback(A, a, sent) =>
                 \A B \in Ids \ {A} : waiting'[B] = waiting[B]
       /\ \A B \in CrashUsers, text \in CrashTexts, so \in Survived :
             HandleMessage(B, text, so) =>
                 /\ ~waiting[B] =>
                       /\ waiting' = waiting
                       /\ \A v \in DOMAIN users_db :
                             users_db'[v].rewards_wallet = users_db[v].rewards_wallet
                 /\ \A A \in Ids \ {B} : waiting'[A] = waiting[A]
                 /\ \A A \in DOMAIN users_db \ {B} : users_db'[A] = users_db[A]
       /\ \A A \in DOMAIN users_db \cap DOMAIN users_db' :
             (up /\ users_db'[A].rewards_wallet # users_db[A].rewards_wallet) =>
                 /\ last'.op = "message"
                 /\ last'.user = A
                 /\ waiting[A]
      ]_vars

\* C24's case: a registered user whose session is Idle sent a free text
\* while another user was waiting; the other user still waits.
C24_Witness ==
    /\ last.op = "message"
    /\ last.result = "unrecognized"
    /\ last.user \in DOMAIN users_db
    /\ \E A \in DOMAIN users_db \ {last.user} : waiting[A]

\* C25: while the process runs, both referral counters of every user are
\* non-negative and never decrease; a counter changes only in a step that
\* creates a user with a resolved referrer, by one, and only the direct
\* counter of that referrer and the indirect counter of the referrer's
\* referrer; a new record starts with both counters at zero.
C25_CountersMonotone ==
    [][(up /\ up') =>
          /\ \A u \in DOMAIN users_db' \ DOMAIN users_db :
                Counters(users_db')[u] = <<0, 0>>
          /\ \A u \in DOMAIN users_db \cap DOMAIN users_db' :
                LET d  == users_db[u].direct_referrals
                    i  == users_db[u].indirect_referrals
                    d1 == users_db'[u].direct_referrals
                    i1 == users_db'[u].indirect_referrals
                IN  /\ d >= 0 /\ i >= 0 /\ d1 >= d /\ i1 >= i
                    /\ (d1 # d \/ i1 # i) =>
                          /\ last'.op = "start"
                          /\ last'.result = "created"
                          /\ last'.ref \in DOMAIN users_db
                          /\ last'.user \notin DOMAIN users_db
                    /\ d1 # d => (d1 = d + 1 /\ last'.ref = u)
                    /\ i1 # i => (i1 = i + 1 /\ users_db[last'.ref].referred_by = u)
      ]_vars

\* C25's case: a user with a referee and a second-level referee has just
\* had a wallet update accepted.
C25_Witness ==
    /\ last.op = "message"
    /\ last.result = "updated"
    /\ users_db[last.user].direct_referrals = 1
    /\ users_db[last.user].indirect_referrals = 1
    /\ users_db[last.user].rewards_wallet \notin PoolAddresses

\* C26: after a step whose save succeeded, the file holds the dump of the
\* in-memory user map and the in-memory used-address set; a step of the
\* running process that changes the store or the used-address set attempts
\* a save, and so does a load that backfilled a record.
C26_FlushOnMutation ==
    [][/\ (up' /\ last'.log = "info") =>
             /\ disk'.kind = "ok"
             /\ disk'.users = [u \in DOMAIN users_db' |-> DumpRecord(users_db'[u])]
             /\ disk'.used_addresses = used_addresses'
       /\ (up /\ up' /\ <<users_db, used_addresses>>' # <<users_db, used_addresses>>) =>
             last'.log \in {"info", "error"}
       /\ (~up /\ up' /\ users_db' # <<>> /\ NeedsMigration(disk)) =>
             last'.log \in {"info", "error"}
       /\ (~up /\ up' /\ last'.log = None) =>
             /\ disk' = disk
             /\ users_db' # <<>> => users_db' = disk.users
      ]_vars

\* C26's case: a wallet update was just saved in a store of three users, and
\* the file holds the dump of the store.
C26_Witness ==
    /\ last.op = "message"
    /\ last.result = "updated"
    /\ last.log = "info"
    /\ Cardinality(DOMAIN users_db) = 3
    /\ disk.users = [u \in DOMAIN users_db |-> DumpRecord(users_db[u])]

Accumulators == {"sol_balance", "referral_rewards", "cashback_rewards", "total_paid_rewards"}

\* C27: in every state reachable from an empty store the four accumulators
\* of every user record are zero, in memory and in the file.
C27_AccumulatorsZero ==
    /\ \A u \in DOMAIN users_db : \A f \in Accumulators : users_db[u][f] = 0
    /\ \A u \in DOMAIN disk.users : \A f \in Accumulators : disk.users[u][f] = 0

\* C27's case: three users, one of them with a referee and a second-level
\* referee, and one whose rewards wallet was changed.
C27_Witness ==
    /\ Cardinality(DOMAIN users_db) = 3
    /\ \E U \in DOMAIN users_db :
          users_db[U].direct_referrals = 1 /\ users_db[U].indirect_referrals = 1
    /\ \E V \in DOMAIN users_db : users_db[V].rewards_wallet \notin PoolAddresses
    /\ \A u \in DOMAIN users_db : users_db[u].referral_rewards = 0

\* C28: in every state reachable from an empty store each rewardsWallet has
\* a length of 32 to 44; a new record's rewardsWallet is its depositAddress;
\* and a rewardsWallet changes only in a free-text step of its own user,
\* taken while that user was waiting, to the text of that message as
\* handle_message takes it (without surrounding blanks).
C28_RewardsWalletProvenance ==
    [][/\ \A u \in DOMAIN users_db' :
             /\ StrLen(users_db'[u].rewards_wallet) >= MinWalletLen
             /\ StrLen(users_db'[u].rewards_wallet) <= MaxWalletLen
       /\ \A u \in DOMAIN users_db' \ DOMAIN users_db :
             users_db'[u].rewards_wallet = users_db'[u].team_address
       /\ \A u \in DOMAIN users_db \cap DOMAIN users_db' :
             users_db'[u].rewards_wallet # users_db[u].rewards_wallet =>
                 /\ waiting[u]
                 /\ last'.op = "message"
                 /\ last'.user = u
                 /\ \E text \in Texts : HandleMessage(u, text, "ok")
                 /\ \A text \in Texts :
                       HandleMessage(u, text, "ok") =>
                           users_db'[u].rewards_wallet = Strip(text)
      ]_vars

\* C28's case: a user's rewards wallet is the 44 characters of a message
\* that user sent, next to a user whose rewards wallet is its deposit
\* address.
C28_Witness ==
    /\ \E u \in DOMAIN users_db :
          /\ users_db[u].rewards_wallet = Str("w", 44, 0, 0)
          /\ users_db[u].team_address \in PoolAddresses
    /\ \E v \in DOMAIN users_db : users_db[v].rewards_wallet = users_db[v].team_address

\* a call of assign_team_address is at pc
AssignAt(pc) == \E u \in DOMAIN tasks : tasks[u].pc = pc

\* C29: under the policy of bot.py, from an empty used set, the used set is
\* always the set of the addresses held by the users and a subset of the
\* pool, and the first users, as many as the pool has entries, hold
\* distinct addresses; an assignment made while fewer addresses are used
\* than the pool holds returns a pool address not yet used, and every
\* assignment returns a pool address; and a search for an unused address
\* ends.
C29_UnusedFirst ==
    /\ [](/\ used_addresses = {users_db[u].team_address : u \in DOMAIN users_db}
          /\ used_addresses \subseteq PoolAddresses
          /\ Cardinality(DOMAIN users_db) <= Cardinality(PoolAddresses) =>
                Cardinality(used_addresses) = Cardinality(DOMAIN users_db))
    /\ [][\A u \in PoolUsers :
             BotInsert(u) =>
                 /\ users_db'[u].team_address \in PoolAddresses
                 /\ Cardinality(used_addresses) < Cardinality(PoolAddresses) =>
                       users_db'[u].team_address \notin used_addresses]_vars
    /\ (AssignAt("search") ~> AssignAt("add"))

\* C29's case: three users hold addresses of a pool of two: the first two
\* assignments left no address unused and the third drew among all.
C29_Witness ==
    /\ Cardinality(DOMAIN users_db) = 3
    /\ used_addresses = PoolAddresses
    /\ tasks = <<>>
    /\ \E u, v \in DOMAIN users_db :
          /\ users_db[u].created_at.t < users_db[v].created_at.t
          /\ \A w \in DOMAIN users_db \ {u, v} :
                users_db[v].created_at.t < users_db[w].created_at.t
          /\ users_db[u].team_address # users_db[v].team_address

\* C30: a session that is waiting stops waiting only in the step that ends
\* a handle_message call of its user; a button press of a waiting user (the
\* prompt's Cancel button, which carries the rewards action, refresh, an
\* unknown action, a new request) and a /start leave it waiting; and a free
\* text of a waiting user is never answered as unrecognized.
C30_OnlyFreeTextEndsWaiting ==
    [][\A u \in Users :
          waiting[u] =>
              /\ ~waiting'[u] => (last'.op = "reply" /\ last'.user = u)
              /\ \A a \in ButtonActions, sent \in BOOLEAN :
                    ButtonCallback(u, a, sent) => waiting'[u]
              /\ \A tok \in Tokens : StartCommand(u, tok, "ok") => waiting'[u]
              /\ \A text \in Texts :
                    HandleMessage(u, text, "ok") =>
                        last'.result \in {"rejected", "updated", "not_found"}
      ]_vars

\* C30's case: a waiting user pressed a button that shows a screen (Cancel
\* or refresh) and is still waiting.
C30_Witness ==
    /\ last.op = "button"
    /\ last.result = "shown"
    /\ waiting[last.user]

\* C31 as stated: once a handle_message call has overwritten its user's
\* rewardsWallet, the session is not left in AwaitingWalletInput: the call
\* ends with the session Idle whether its confirmation reply was sent or
\* failed, so that no second message of the same request is taken as a
\* wallet candidate.
C31_IdleAfterOverwrite ==
    [][\A u \in Users :
          (replying[u] > 0 /\ replying'[u] < replying[u]) => ~waiting'[u]]_vars

=============================================================================
